---- MODULE Spec2Model ----
(***************************************************************************)
(* Model of gossm's interactive process proxy (internal/escape_simple.go): *)
(* CallProcessWithSimpleEscape, its forwarding goroutine                   *)
(* copyWithEscapeDetection, the cmd.Wait goroutine, terminateGracefully,   *)
(* and the environment they run against (the child process, the local     *)
(* terminal, signals delivered to gossm, the grace timer).                 *)
(***************************************************************************)
EXTENDS Integers, Sequences, FiniteSets, TLC

\* ---------------------------------------------------------------- bytes
Tilde == 126
Dot == 46
CR == 13
LF == 10
Slash == 47

Byte == {Tilde, Dot, CR, LF, Slash}

\* ---------------------------------------------------------------- bounds
MaxLen == 4     \* longest local input fed to the scanner alone
MaxIn == 3      \* longest local input typed during a proxied run
MaxSigs == 1    \* signals delivered to gossm during a proxied run
MaxLateSigs == 2  \* further signals arriving while the signal path waits

\* The keys typed during a proxied run: the two bytes of the escape sequence
\* and a line break (a `.` that follows no armed `~` is an ordinary byte).
Keys == {Tilde, Dot, LF}

RECURSIVE SeqsUpTo(_, _)
SeqsUpTo(A, n) ==
    IF n = 0 THEN {<<>>}
    ELSE LET S == SeqsUpTo(A, n - 1)
         IN S \cup {Append(s, b) : s \in {t \in S : Len(t) = n - 1}, b \in A}

\* ---------------------------------------------------------------- errors
\* A Go error value: its message and whether WrapError decorated it.
Err(m) == [msg |-> m, wrapped |-> FALSE]
Nil == Err("nil")

WrapError(e) == IF e = Nil THEN Nil ELSE [msg |-> e.msg, wrapped |-> TRUE]

\* What the OS can report for the child: exit code 0, exit code 7, or death
\* by one of the signals the proxy sends.
ExitStatuses == {"ok", "exit status 7", "signal: terminated",
                 "signal: interrupt", "signal: killed"}

\* exec.Cmd.Wait turns a non-success state into an *exec.ExitError whose
\* text is the state's text.
ExitErrorOf(status) == IF status = "ok" THEN Nil ELSE Err(status)

\* os.Process.Wait on a child somebody else already reaped.
NoChildErrors == {Err("wait: no child processes"), Err("waitid: no child processes")}

Signals == {"SIGINT", "SIGTERM"}

\* ---------------------------------------------------------------- state
VARIABLES
    pc,               \* position of the goroutine running the proxy call
    stdinIsTerminal,  \* term.IsTerminal(os.Stdin)
    dsig,             \* the goroutine of CallProcessDirect that absorbs SIGINT
    termRaw,          \* the local terminal is in raw mode
    restoreCount,     \* number of term.Restore calls made
    ret,              \* value returned by the proxy call
    oldState,         \* terminal mode saved by term.MakeRaw
    selected,         \* the select case taken at line 85
    tgRet,            \* value returned by terminateGracefully
    trace,            \* what the proxy goroutine did to the terminal and child, in order
    child,            \* "none" | "running" | "exited"
    childStatus,      \* how the child ended
    reaped,           \* some waiter collected the child (os.Process done)
    delivered,        \* signals delivered to the live child
    input,            \* bytes still to come on local standard input
    srcEnd,           \* what Read does once input is empty: "block" | "eof" | "err"
    consumed,         \* bytes the forwarding loop has read so far
    fpc,              \* position of the forwarding goroutine
    lastWasNewline,
    tildeSeen,
    out,              \* bytes written to the child's standard input
    fret,             \* return value of copyWithEscapeDetection
    escaped,          \* the scanner recognised the escape sequence
    ctxDone,          \* ctx.Done() is closed: the proxy call's context, or the one handed to the watchers
    pipeClosed,       \* the write end of the child's stdin pipe is closed
    stdinErr,         \* channels, as queues
    escapeDetected,
    processDone,
    sigs,
    done,
    wpc,              \* position of the goroutine running cmd.Wait
    twpc,             \* position of terminateGracefully's waiter goroutine
    timer,            \* time.After(3s): "off" | "running" | "fired"
    sigCount          \* signals delivered to gossm so far

\* A session command (start, ssh, scp, fwd, fwdrem) around the proxy call.
VARIABLES
    scmd,             \* which session command runs
    spc,              \* position of the command's Run function
    slog              \* what the command did, in order

\* The command dispatcher and its invocation watchers.
VARIABLES
    dpc,              \* position of PrintCommandInvocation
    inputs,           \* the GetCommandInvocationInput list, one instance id each
    wg,               \* the sync.WaitGroup counter
    wstate,           \* per target: "unstarted" | "polling" | "succeeded" | "failed" | "errored"
    lastStatus,       \* per target: output.Status of its latest poll, "none" before
    lines             \* what the watchers printed, in order

sessVars == <<scmd, spc, slog>>
dispVars == <<dpc, inputs, wg, wstate, lastStatus, lines>>

\* State outside the proxy call, which no step of the proxy call touches.
otherVars == <<sessVars, dispVars>>

mainVars == <<pc, stdinIsTerminal, otherVars, dsig, termRaw, oldState, restoreCount, ret, selected, tgRet, trace>>
childVars == <<child, childStatus, reaped, delivered>>
srcVars == <<input, srcEnd, consumed>>
fwdVars == <<fpc, lastWasNewline, tildeSeen, out, fret, escaped>>
chanVars == <<stdinErr, escapeDetected, processDone, sigs, done>>
auxVars == <<ctxDone, pipeClosed, wpc, twpc, timer, sigCount>>

proxyVars == <<pc, stdinIsTerminal, dsig, termRaw, oldState, restoreCount, ret, selected,
               tgRet, trace, childVars, srcVars, fwdVars, chanVars, auxVars>>

vars == <<mainVars, childVars, srcVars, fwdVars, chanVars, auxVars>>


\* A send that enqueues its value twice.
PushTwice(ch, v) == Append(Append(ch, v), v)

Push(ch, v) == Append(ch, v)

\* ---------------------------------------------------------------- scanner
IsNewline(b) == b = CR \/ b = LF

\* Variants of the loop body with one slip each, used to show that the
\* properties below depend on the code as written.
\* - arming on any `~`, not only at a line start
ScanByteAnywhere(lwn, ts, b) ==
    IF ~ts /\ b = Tilde
    THEN [lastWasNewline |-> FALSE, tildeSeen |-> TRUE, write |-> <<>>, escape |-> FALSE]
    ELSE IF ts
    THEN IF b = Dot
         THEN [lastWasNewline |-> lwn, tildeSeen |-> ts, write |-> <<>>, escape |-> TRUE]
         ELSE [lastWasNewline |-> IsNewline(b), tildeSeen |-> FALSE,
               write |-> <<Tilde, b>>, escape |-> FALSE]
    ELSE [lastWasNewline |-> IsNewline(b), tildeSeen |-> FALSE,
          write |-> <<b>>, escape |-> FALSE]

\* - an ordinary byte never clears lastWasNewline
ScanByteStickyNewline(lwn, ts, b) ==
    IF lwn /\ b = Tilde
    THEN [lastWasNewline |-> FALSE, tildeSeen |-> TRUE, write |-> <<>>, escape |-> FALSE]
    ELSE IF ts
    THEN IF b = Dot
         THEN [lastWasNewline |-> lwn, tildeSeen |-> ts, write |-> <<>>, escape |-> TRUE]
         ELSE [lastWasNewline |-> IsNewline(b), tildeSeen |-> FALSE,
               write |-> <<Tilde, b>>, escape |-> FALSE]
    ELSE [lastWasNewline |-> lwn \/ IsNewline(b), tildeSeen |-> FALSE,
          write |-> <<b>>, escape |-> FALSE]

\* - the `~` is written as soon as it is seen
ScanByteEagerTilde(lwn, ts, b) ==
    IF lwn /\ b = Tilde
    THEN [lastWasNewline |-> FALSE, tildeSeen |-> TRUE, write |-> <<Tilde>>, escape |-> FALSE]
    ELSE IF ts
    THEN IF b = Dot
         THEN [lastWasNewline |-> lwn, tildeSeen |-> ts, write |-> <<>>, escape |-> TRUE]
         ELSE [lastWasNewline |-> IsNewline(b), tildeSeen |-> FALSE,
               write |-> <<b>>, escape |-> FALSE]
    ELSE [lastWasNewline |-> IsNewline(b), tildeSeen |-> FALSE,
          write |-> <<b>>, escape |-> FALSE]

\* - the byte after an armed `~` never counts as a line break
ScanByteNoBreakAfterTilde(lwn, ts, b) ==
    IF lwn /\ b = Tilde
    THEN [lastWasNewline |-> FALSE, tildeSeen |-> TRUE, write |-> <<>>, escape |-> FALSE]
    ELSE IF ts
    THEN IF b = Dot
         THEN [lastWasNewline |-> lwn, tildeSeen |-> ts, write |-> <<>>, escape |-> TRUE]
         ELSE [lastWasNewline |-> FALSE, tildeSeen |-> FALSE,
               write |-> <<Tilde, b>>, escape |-> FALSE]
    ELSE [lastWasNewline |-> IsNewline(b), tildeSeen |-> FALSE,
          write |-> <<b>>, escape |-> FALSE]

\* The scanner keeping lastWasNewline when it arms.
ScanByteKeepsLineStart(lwn, ts, b) ==
    IF lwn /\ b = Tilde
    THEN [lastWasNewline |-> lwn, tildeSeen |-> TRUE, write |-> <<>>, escape |-> FALSE]
    ELSE IF ts
    THEN IF b = Dot
         THEN [lastWasNewline |-> lwn, tildeSeen |-> ts, write |-> <<>>, escape |-> TRUE]
         ELSE [lastWasNewline |-> IsNewline(b), tildeSeen |-> FALSE,
               write |-> <<Tilde, b>>, escape |-> FALSE]
    ELSE [lastWasNewline |-> IsNewline(b), tildeSeen |-> FALSE,
          write |-> <<b>>, escape |-> FALSE]

\* The scanner looking for `~` only while nothing has been read before, that
\* is, with a memory besides lastWasNewline and tildeSeen.
ScanByteFirstByteOnly(lwn, ts, b) ==
    IF lwn /\ b = Tilde /\ consumed = <<>>
    THEN [lastWasNewline |-> FALSE, tildeSeen |-> TRUE, write |-> <<>>, escape |-> FALSE]
    ELSE IF ts
    THEN IF b = Dot
         THEN [lastWasNewline |-> lwn, tildeSeen |-> ts, write |-> <<>>, escape |-> TRUE]
         ELSE [lastWasNewline |-> IsNewline(b), tildeSeen |-> FALSE,
               write |-> <<Tilde, b>>, escape |-> FALSE]
    ELSE [lastWasNewline |-> IsNewline(b), tildeSeen |-> FALSE,
          write |-> <<b>>, escape |-> FALSE]

\* The scanner dropping the held `~` when the next byte is not `.`.
ScanByteDropsHeldTilde(lwn, ts, b) ==
    IF lwn /\ b = Tilde
    THEN [lastWasNewline |-> FALSE, tildeSeen |-> TRUE, write |-> <<>>, escape |-> FALSE]
    ELSE IF ts
    THEN IF b = Dot
         THEN [lastWasNewline |-> lwn, tildeSeen |-> ts, write |-> <<>>, escape |-> TRUE]
         ELSE [lastWasNewline |-> IsNewline(b), tildeSeen |-> FALSE,
               write |-> <<b>>, escape |-> FALSE]
    ELSE [lastWasNewline |-> IsNewline(b), tildeSeen |-> FALSE,
          write |-> <<b>>, escape |-> FALSE]

\* The scanner staying armed when the byte after the held `~` is a newline.
ScanByteStaysArmedOnNewline(lwn, ts, b) ==
    IF lwn /\ b = Tilde
    THEN [lastWasNewline |-> FALSE, tildeSeen |-> TRUE, write |-> <<>>, escape |-> FALSE]
    ELSE IF ts
    THEN IF b = Dot
         THEN [lastWasNewline |-> lwn, tildeSeen |-> ts, write |-> <<>>, escape |-> TRUE]
         ELSE [lastWasNewline |-> IsNewline(b), tildeSeen |-> IsNewline(b),
               write |-> <<Tilde, b>>, escape |-> FALSE]
    ELSE [lastWasNewline |-> IsNewline(b), tildeSeen |-> FALSE,
          write |-> <<b>>, escape |-> FALSE]

\* One pass of the loop body of copyWithEscapeDetection over the byte b:
\* the next scanner state, the bytes handed to dst.Write and whether the
\* escape notification is sent.
ScanByte(lwn, ts, b) ==
    IF lwn /\ b = Tilde
    THEN [lastWasNewline |-> FALSE, tildeSeen |-> TRUE, write |-> <<>>, escape |-> FALSE]
    ELSE IF ts
    THEN IF b = Dot
         THEN [lastWasNewline |-> lwn, tildeSeen |-> ts, write |-> <<>>, escape |-> TRUE]
         ELSE [lastWasNewline |-> IsNewline(b), tildeSeen |-> FALSE,
               write |-> <<Tilde, b>>, escape |-> FALSE]
    ELSE [lastWasNewline |-> IsNewline(b), tildeSeen |-> FALSE,
          write |-> <<b>>, escape |-> FALSE]

\* dst.Write on the child's stdin pipe: the bytes arrive only while the
\* write end is open and the child still holds the read end; the error of a
\* failed write is dropped by the caller.
PipeWrite(bytes) ==
    IF ~pipeClosed /\ child = "running" THEN out \o bytes ELSE out

\* ---------------------------------------------------------------- forwarding goroutine
\* select { case <-ctx.Done(): return nil ...
FwdCancelled ==
    /\ fpc = "check"
    /\ ctxDone
    /\ fret' = Nil
    /\ fpc' = "ret"
    /\ UNCHANGED <<lastWasNewline, tildeSeen, out, escaped>>
    /\ UNCHANGED <<mainVars, childVars, srcVars, chanVars, auxVars>>

\* ... default: the goroutine enters src.Read(buf) and blocks there.
FwdEnterRead ==
    /\ fpc = "check"
    /\ ~ctxDone
    /\ fpc' = "read"
    /\ UNCHANGED <<lastWasNewline, tildeSeen, out, fret, escaped>>
    /\ UNCHANGED <<mainVars, childVars, srcVars, chanVars, auxVars>>

\* Where the goroutine goes once the escape notification is sent: `return
\* nil` ("check" would be another turn of the loop).
AfterEscapeLoop == "check"

AfterEscape == "ret"

\* Read returned one byte; the rest of the loop body runs on it.
FwdReadByte ==
    /\ fpc = "read"
    /\ input # <<>>
    /\ LET b == Head(input)
           r == ScanByte(lastWasNewline, tildeSeen, b)
       IN /\ input' = Tail(input)
          /\ consumed' = Append(consumed, b)
          /\ lastWasNewline' = r.lastWasNewline
          /\ tildeSeen' = r.tildeSeen
          /\ out' = PipeWrite(r.write)
          /\ IF r.escape
             THEN /\ escapeDetected' = Push(escapeDetected, TRUE)
                  /\ escaped' = TRUE
                  /\ fret' = Nil
                  /\ fpc' = AfterEscape
             ELSE /\ UNCHANGED <<escapeDetected, escaped, fret>>
                  /\ fpc' = "check"
    /\ UNCHANGED <<srcEnd, stdinErr, processDone, sigs, done>>
    /\ UNCHANGED <<mainVars, childVars, auxVars>>

\* Read returned io.EOF.
FwdReadEOF ==
    /\ fpc = "read"
    /\ input = <<>>
    /\ srcEnd = "eof"
    /\ fret' = Nil
    /\ fpc' = "ret"
    /\ UNCHANGED <<lastWasNewline, tildeSeen, out, escaped>>
    /\ UNCHANGED <<mainVars, childVars, srcVars, chanVars, auxVars>>

\* Read returned another error.
FwdReadErr ==
    /\ fpc = "read"
    /\ input = <<>>
    /\ srcEnd = "err"
    /\ fret' = Err("read error")
    /\ fpc' = "ret"
    /\ UNCHANGED <<lastWasNewline, tildeSeen, out, escaped>>
    /\ UNCHANGED <<mainVars, childVars, srcVars, chanVars, auxVars>>

\* The pipe left as it was when the loop ends.
ClosedAfterLoopKept(closed) == closed

\* defer dst.Close(): whether the write end of the child's stdin pipe is
\* closed once copyWithEscapeDetection has returned.
ClosedAfterLoop(closed) == TRUE

\* copyWithEscapeDetection returns: the deferred dst.Close runs and the
\* goroutine sends the result on stdinErr.
FwdReturn ==
    /\ fpc = "ret"
    /\ pipeClosed' = ClosedAfterLoop(pipeClosed)
    /\ stdinErr' = Push(stdinErr, fret)
    /\ fpc' = "done"
    /\ UNCHANGED <<lastWasNewline, tildeSeen, out, fret, escaped>>
    /\ UNCHANGED <<escapeDetected, processDone, sigs, done>>
    /\ UNCHANGED <<ctxDone, wpc, twpc, timer, sigCount>>
    /\ UNCHANGED <<mainVars, childVars, srcVars>>


\* ---------------------------------------------------------------- child process
\* The child ends by itself (codes 0 and 7 stand for success and failure) or
\* dies of a signal that was delivered to it.
CanEndWith(status) ==
    \/ status \in {"ok", "exit status 7"}
    \/ status = "signal: terminated" /\ "SIGTERM" \in delivered
    \/ status = "signal: interrupt" /\ "SIGINT" \in delivered
    \/ status = "signal: killed" /\ "SIGKILL" \in delivered

ChildExit ==
    /\ child = "running"
    /\ \E status \in ExitStatuses :
          /\ CanEndWith(status)
          /\ childStatus' = status
    /\ child' = "exited"
    /\ UNCHANGED <<reaped, delivered>>
    /\ UNCHANGED <<mainVars, srcVars, fwdVars, chanVars, auxVars>>

\* os.Process.Signal: fails once the process was waited for; a signal sent
\* to a child that ended but was not yet collected changes nothing.
SignalFails == reaped

Deliver(sig) == IF child = "running" THEN delivered \cup {sig} ELSE delivered

\* os.Process.Wait: the first waiter collects the state, a later one is told
\* there is no child.
WaitResults == IF reaped THEN NoChildErrors ELSE {Nil}

\* exec.Cmd.Wait: as os.Process.Wait, with a non-success state turned into
\* an exit error.
CmdWaitResults == IF reaped THEN NoChildErrors ELSE {ExitErrorOf(childStatus)}

\* ---------------------------------------------------------------- cmd.Wait goroutine
\* go func() { processDone <- cmd.Wait() }()
WaiterDone ==
    /\ wpc = "wait"
    /\ child = "exited"
    /\ \E e \in CmdWaitResults : processDone' = Push(processDone, e)
    /\ reaped' = TRUE
    /\ pipeClosed' = TRUE
    /\ wpc' = "done"
    /\ UNCHANGED <<child, childStatus, delivered>>
    /\ UNCHANGED <<stdinErr, escapeDetected, sigs, done>>
    /\ UNCHANGED <<ctxDone, twpc, timer, sigCount>>
    /\ UNCHANGED <<mainVars, srcVars, fwdVars>>

\* ---------------------------------------------------------------- environment
\* signal.Notify relays SIGINT/SIGTERM into sigs without blocking: a signal
\* that finds the one-slot channel full is dropped.
\* CallProcessDirect registers SIGINT alone and never calls signal.Stop.
NotifyActive ==
    \/ pc \in {"select", "tg_signal", "tg_select", "tg_waitdone",
               "tg_return", "sig_wait", "err_wait", "deferred"}
    \/ dsig # "idle"

NotifiedSignals == IF stdinIsTerminal THEN Signals ELSE {"SIGINT"}

SigArrive ==
    /\ NotifyActive
    /\ sigCount < MaxSigs
    /\ \E sig \in NotifiedSignals :
          sigs' = IF Len(sigs) < 1 THEN Push(sigs, sig) ELSE sigs
    /\ sigCount' = sigCount + 1
    /\ UNCHANGED <<stdinErr, escapeDetected, processDone, done>>
    /\ UNCHANGED <<ctxDone, pipeClosed, wpc, twpc, timer>>
    /\ UNCHANGED <<mainVars, childVars, srcVars, fwdVars>>

\* The grace period runs out.
TimerFire ==
    /\ timer = "running"
    /\ timer' = "fired"
    /\ UNCHANGED <<ctxDone, pipeClosed, wpc, twpc, sigCount>>
    /\ UNCHANGED <<mainVars, childVars, srcVars, fwdVars, chanVars>>


\* ---------------------------------------------------------------- proxy goroutine
\* An entry of trace: what was done, on what, and the terminal mode then.
Ev(name, arg) == [ev |-> name, arg |-> arg, raw |-> termRaw]
EvIn(name, arg, mode) == [ev |-> name, arg |-> arg, raw |-> mode]

Unset == Err("unset")

\* A Restore that leaves the mode as it is.
KeptMode(raw, saved) == raw

\* term.Restore(fd, oldState): the mode the terminal is in afterwards.
RestoredMode(raw, saved) == saved

\* What the child's standard input is bound to when it is started:
\* CallProcessDirect sets cmd.Stdin = os.Stdin before cmd.Run; the proxy
\* calls cmd.StdinPipe() before cmd.Start, and its later assignment to
\* cmd.Stdin (after a failed MakeRaw) comes after the child was started.
ChildStdin == IF stdinIsTerminal THEN "pipe" ELSE "os.Stdin"

\* The error a failed start of the child is reported with being dropped.
SpawnFailureNil(e) == Nil

\* return WrapError(err) after cmd.Start / cmd.Run failed to start the child.
SpawnFailureResult(e) == WrapError(e)

\* CallProcessDirect dropping what cmd.Run reported.
DirectResultNil(e) == Nil

\* CallProcessDirect: if err := cmd.Run(); err != nil { return WrapError(err) }
\* return nil
DirectResult(e) == WrapError(e)

\* if !term.IsTerminal(...) { return CallProcessDirect(...) }: cmd.Run fails
\* to start the child.
DirectStartFail ==
    /\ pc = "entry"
    /\ ~stdinIsTerminal
    /\ ret' = SpawnFailureResult(Err("spawn error"))
    /\ dsig' = "stopping"
    /\ pc' = "returned"
    /\ UNCHANGED <<stdinIsTerminal, otherVars, termRaw, oldState, restoreCount, selected, tgRet, trace>>
    /\ UNCHANGED <<childVars, srcVars, fwdVars, chanVars, auxVars>>

\* CallProcessDirect: cmd.Run starts the child on the caller's own streams.
DirectStart ==
    /\ pc = "entry"
    /\ ~stdinIsTerminal
    /\ child' = "running"
    /\ dsig' = "running"
    /\ pc' = "direct_wait"
    /\ UNCHANGED <<stdinIsTerminal, otherVars, termRaw, oldState, restoreCount, ret, selected, tgRet, trace>>
    /\ UNCHANGED <<childStatus, reaped, delivered>>
    /\ UNCHANGED <<srcVars, fwdVars, chanVars, auxVars>>

\* CallProcessDirect: cmd.Run returns once the child ended.
DirectWait ==
    /\ pc = "direct_wait"
    /\ child = "exited"
    /\ reaped' = TRUE
    /\ ret' = DirectResult(ExitErrorOf(childStatus))
    /\ dsig' = "stopping"
    /\ pc' = "returned"
    /\ UNCHANGED <<stdinIsTerminal, otherVars, termRaw, oldState, restoreCount, selected, tgRet, trace>>
    /\ UNCHANGED <<child, childStatus, delivered>>
    /\ UNCHANGED <<srcVars, fwdVars, chanVars, auxVars>>

\* CallProcessDirect's goroutine: case <-sigs, the signal is dropped.
DirectSigAbsorb ==
    /\ dsig \in {"running", "stopping"}
    /\ sigs # <<>>
    /\ sigs' = Tail(sigs)
    /\ UNCHANGED <<stdinErr, escapeDetected, processDone, done>>
    /\ UNCHANGED <<mainVars, childVars, srcVars, fwdVars, auxVars>>

\* CallProcessDirect's goroutine: case <-done after the deferred close(done).
DirectSigExit ==
    /\ dsig = "stopping"
    /\ dsig' = "done"
    /\ UNCHANGED <<pc, stdinIsTerminal, otherVars, termRaw, oldState, restoreCount, ret, selected, tgRet, trace>>
    /\ UNCHANGED <<childVars, srcVars, fwdVars, chanVars, auxVars>>

\* A child started on the caller's own standard input reads the next local
\* byte itself.
ChildRead ==
    /\ child = "running"
    /\ ChildStdin = "os.Stdin"
    /\ input # <<>>
    /\ out' = Append(out, Head(input))
    /\ input' = Tail(input)
    /\ UNCHANGED <<srcEnd, consumed>>
    /\ UNCHANGED <<fpc, lastWasNewline, tildeSeen, fret, escaped>>
    /\ UNCHANGED <<mainVars, childVars, chanVars, auxVars>>

\* cmd.StdinPipe() fails.
StdinPipeFail ==
    /\ pc = "entry"
    /\ stdinIsTerminal
    /\ ret' = WrapError(Err("pipe error"))
    /\ pc' = "returned"
    /\ UNCHANGED <<stdinIsTerminal, otherVars, dsig, termRaw, oldState, restoreCount, selected, tgRet, trace>>
    /\ UNCHANGED <<childVars, srcVars, fwdVars, chanVars, auxVars>>

\* cmd.Start() fails.
StartFail ==
    /\ pc = "entry"
    /\ stdinIsTerminal
    /\ ret' = SpawnFailureResult(Err("spawn error"))
    /\ pipeClosed' = TRUE
    /\ pc' = "returned"
    /\ UNCHANGED <<stdinIsTerminal, otherVars, dsig, termRaw, oldState, restoreCount, selected, tgRet, trace>>
    /\ UNCHANGED <<ctxDone, wpc, twpc, timer, sigCount>>
    /\ UNCHANGED <<childVars, srcVars, fwdVars, chanVars>>

\* cmd.Start() succeeds: the child runs with the pipe as its standard input.
StartOK ==
    /\ pc = "entry"
    /\ stdinIsTerminal
    /\ child' = "running"
    /\ pc' = "makeraw"
    /\ UNCHANGED <<stdinIsTerminal, otherVars, dsig, termRaw, oldState, restoreCount, ret, selected, tgRet, trace>>
    /\ UNCHANGED <<childStatus, reaped, delivered>>
    /\ UNCHANGED <<srcVars, fwdVars, chanVars, auxVars>>

\* term.MakeRaw fails. Assigning cmd.Stdin after Start does not rebind the
\* running child's standard input; the proxy goes on to `return cmd.Wait()`.
MakeRawFail ==
    /\ pc = "makeraw"
    /\ trace' = Append(trace, Ev("makeraw_failed", "terminal"))
    /\ pc' = "rawfail_wait"
    /\ UNCHANGED <<stdinIsTerminal, otherVars, dsig, termRaw, oldState, restoreCount, ret, selected, tgRet>>
    /\ UNCHANGED <<childVars, srcVars, fwdVars, chanVars, auxVars>>

\* return cmd.Wait() after the failed MakeRaw.
RawFailWait ==
    /\ pc = "rawfail_wait"
    /\ child = "exited"
    /\ reaped' = TRUE
    /\ pipeClosed' = TRUE
    /\ ret' = ExitErrorOf(childStatus)
    /\ pc' = "returned"
    /\ UNCHANGED <<stdinIsTerminal, otherVars, dsig, termRaw, oldState, restoreCount, selected, tgRet, trace>>
    /\ UNCHANGED <<child, childStatus, delivered>>
    /\ UNCHANGED <<ctxDone, wpc, twpc, timer, sigCount>>
    /\ UNCHANGED <<srcVars, fwdVars, chanVars>>

\* term.MakeRaw succeeds and the restoring defer is registered.
MakeRawOK ==
    /\ pc = "makeraw"
    /\ oldState' = termRaw
    /\ termRaw' = TRUE
    /\ pc' = "setup"
    /\ UNCHANGED <<stdinIsTerminal, otherVars, dsig, restoreCount, ret, selected, tgRet, trace>>
    /\ UNCHANGED <<childVars, srcVars, fwdVars, chanVars, auxVars>>

\* Lines 62-83: the context and channels are made, the forwarding goroutine
\* and the cmd.Wait goroutine are started, signal.Notify is armed.
Setup ==
    /\ pc = "setup"
    /\ fpc' = "check"
    /\ wpc' = "wait"
    /\ lastWasNewline' = TRUE
    /\ tildeSeen' = FALSE
    /\ pc' = "select"
    /\ UNCHANGED <<stdinIsTerminal, otherVars, dsig, termRaw, oldState, restoreCount, ret, selected, tgRet, trace>>
    /\ UNCHANGED <<out, fret, escaped>>
    /\ UNCHANGED <<ctxDone, pipeClosed, twpc, timer, sigCount>>
    /\ UNCHANGED <<childVars, srcVars, chanVars>>

\* The process-exit case swallowing the error.
ProcessExitNil(err) == Nil

\* The value the process-exit case returns for what cmd.Wait reported.
ProcessExitResult(err) == err

\* case err := <-processDone
SelectProcessDone ==
    /\ pc = "select"
    /\ processDone # <<>>
    /\ processDone' = Tail(processDone)
    /\ selected' = "processDone"
    /\ ctxDone' = TRUE
    /\ trace' = Append(trace, Ev("newline", "stderr"))
    /\ ret' = ProcessExitResult(Head(processDone))
    /\ pc' = "deferred"
    /\ UNCHANGED <<stdinIsTerminal, otherVars, dsig, termRaw, oldState, restoreCount, tgRet>>
    /\ UNCHANGED <<stdinErr, escapeDetected, sigs, done>>
    /\ UNCHANGED <<pipeClosed, wpc, twpc, timer, sigCount>>
    /\ UNCHANGED <<childVars, srcVars, fwdVars>>

\* case <-escapeDetected: cancel, close the pipe, restore the terminal,
\* announce; terminateGracefully follows.
SelectEscape ==
    /\ pc = "select"
    /\ escapeDetected # <<>>
    /\ escapeDetected' = Tail(escapeDetected)
    /\ selected' = "escape"
    /\ ctxDone' = TRUE
    /\ pipeClosed' = TRUE
    /\ LET mode == RestoredMode(termRaw, oldState)
       IN /\ termRaw' = mode
          /\ trace' = trace \o <<Ev("restore", "terminal"),
                                 EvIn("announce", "stderr", mode)>>
    /\ restoreCount' = restoreCount + 1
    /\ pc' = "tg_signal"
    /\ UNCHANGED <<stdinIsTerminal, otherVars, dsig, oldState, ret, tgRet>>
    /\ UNCHANGED <<stdinErr, processDone, sigs, done>>
    /\ UNCHANGED <<wpc, twpc, timer, sigCount>>
    /\ UNCHANGED <<childVars, srcVars, fwdVars>>

\* case sig := <-sigs: cancel, close the pipe, pass the signal on (the
\* result of Signal is dropped).
SelectSignal ==
    /\ pc = "select"
    /\ sigs # <<>>
    /\ sigs' = Tail(sigs)
    /\ selected' = "signal"
    /\ ctxDone' = TRUE
    /\ pipeClosed' = TRUE
    /\ LET sig == Head(sigs)
       IN IF SignalFails
          THEN /\ trace' = trace \o <<Ev("received", sig), Ev("signal_failed", sig)>>
               /\ UNCHANGED delivered
          ELSE /\ trace' = trace \o <<Ev("received", sig), Ev("signal", sig)>>
               /\ delivered' = Deliver(sig)
    /\ pc' = "sig_wait"
    /\ UNCHANGED <<stdinIsTerminal, otherVars, dsig, termRaw, oldState, restoreCount, ret, tgRet>>
    /\ UNCHANGED <<stdinErr, escapeDetected, processDone, done>>
    /\ UNCHANGED <<wpc, twpc, timer, sigCount>>
    /\ UNCHANGED <<child, childStatus, reaped>>
    /\ UNCHANGED <<srcVars, fwdVars>>

\* The signal case handing back what cmd.Wait reported.
SignalResultExit(err) == err

\* The value the signal case returns.
SignalResult(err) == Nil

\* <-processDone; return nil
SigWait ==
    /\ pc = "sig_wait"
    /\ processDone # <<>>
    /\ processDone' = Tail(processDone)
    /\ trace' = Append(trace, Ev("exit_observed", Head(processDone).msg))
    /\ ret' = SignalResult(Head(processDone))
    /\ pc' = "deferred"
    /\ UNCHANGED <<stdinIsTerminal, otherVars, dsig, termRaw, oldState, restoreCount, selected, tgRet>>
    /\ UNCHANGED <<stdinErr, escapeDetected, sigs, done>>
    /\ UNCHANGED <<childVars, srcVars, fwdVars, auxVars>>

\* The forwarding-loop case decorating the error it hands back.
StdinErrWrapped(err) == WrapError(err)

\* The value the forwarding-loop case returns for what it received.
StdinErrResult(err) == err

\* case err := <-stdinErr: cancel
SelectStdinErr ==
    /\ pc = "select"
    /\ stdinErr # <<>>
    /\ stdinErr' = Tail(stdinErr)
    /\ selected' = "stdinErr"
    /\ ctxDone' = TRUE
    /\ ret' = StdinErrResult(Head(stdinErr))
    /\ pc' = "err_wait"
    /\ UNCHANGED <<stdinIsTerminal, otherVars, dsig, termRaw, oldState, restoreCount, tgRet, trace>>
    /\ UNCHANGED <<escapeDetected, processDone, sigs, done>>
    /\ UNCHANGED <<pipeClosed, wpc, twpc, timer, sigCount>>
    /\ UNCHANGED <<childVars, srcVars, fwdVars>>

\* <-processDone; return err
ErrWait ==
    /\ pc = "err_wait"
    /\ processDone # <<>>
    /\ processDone' = Tail(processDone)
    /\ trace' = Append(trace, Ev("exit_observed", Head(processDone).msg))
    /\ pc' = "deferred"
    /\ UNCHANGED <<stdinIsTerminal, otherVars, dsig, termRaw, oldState, restoreCount, ret, selected, tgRet>>
    /\ UNCHANGED <<stdinErr, escapeDetected, sigs, done>>
    /\ UNCHANGED <<childVars, srcVars, fwdVars, auxVars>>

\* The deferred calls run as the function returns: signal.Stop, cancel,
\* term.Restore.
Deferred ==
    /\ pc = "deferred"
    /\ ctxDone' = TRUE
    /\ termRaw' = RestoredMode(termRaw, oldState)
    /\ restoreCount' = restoreCount + 1
    /\ trace' = Append(trace, Ev("restore", "terminal"))
    /\ pc' = "returned"
    /\ UNCHANGED <<stdinIsTerminal, otherVars, dsig, oldState, ret, selected, tgRet>>
    /\ UNCHANGED <<pipeClosed, wpc, twpc, timer, sigCount>>
    /\ UNCHANGED <<childVars, srcVars, fwdVars, chanVars>>


\* ---------------------------------------------------------------- terminateGracefully
\* No error counts as a wait error.
isWaitErrorNever(err) == FALSE

isWaitError(err) ==
    IF err = Nil THEN FALSE
    ELSE err.msg = "wait: no child processes" \/ err.msg = "waitid: no child processes"

\* The done case of terminateGracefully: the error it returns for what
\* Process.Wait reported.
TerminateOutcome(err) ==
    IF /\ err # Nil
       /\ err.msg # "signal: terminated"
       /\ err.msg # "signal: broken pipe"
       /\ ~isWaitError(err)
    THEN err
    ELSE Nil

\* The timeout case ready as soon as the timer is started.
GraceNotAwaited == timer # "off"

\* case <-time.After(3 * time.Second) is ready.
GraceElapsed == timer = "fired"

\* cmd.Process.Signal(syscall.SIGTERM); on success the waiter goroutine is
\* started and the select with the grace timer is entered.
TgSignal ==
    /\ pc = "tg_signal"
    /\ IF SignalFails
       THEN /\ trace' = Append(trace, Ev("signal_failed", "SIGTERM"))
            /\ tgRet' = Nil
            /\ pc' = "tg_return"
            /\ UNCHANGED <<delivered, twpc, timer>>
       ELSE /\ trace' = Append(trace, Ev("signal", "SIGTERM"))
            /\ delivered' = Deliver("SIGTERM")
            /\ twpc' = "wait"
            /\ timer' = "running"
            /\ pc' = "tg_select"
            /\ UNCHANGED tgRet
    /\ UNCHANGED <<stdinIsTerminal, otherVars, dsig, termRaw, oldState, restoreCount, ret, selected>>
    /\ UNCHANGED <<child, childStatus, reaped>>
    /\ UNCHANGED <<ctxDone, pipeClosed, wpc, sigCount>>
    /\ UNCHANGED <<srcVars, fwdVars, chanVars>>

\* go func() { _, err := cmd.Process.Wait(); done <- err }()
TgWaiterDone ==
    /\ twpc = "wait"
    /\ child = "exited"
    /\ \E e \in WaitResults : done' = Push(done, e)
    /\ reaped' = TRUE
    /\ twpc' = "done"
    /\ UNCHANGED <<child, childStatus, delivered>>
    /\ UNCHANGED <<stdinErr, escapeDetected, processDone, sigs>>
    /\ UNCHANGED <<ctxDone, pipeClosed, wpc, timer, sigCount>>
    /\ UNCHANGED <<mainVars, srcVars, fwdVars>>

\* case err := <-done
TgSelectDone ==
    /\ pc = "tg_select"
    /\ done # <<>>
    /\ done' = Tail(done)
    /\ LET r == TerminateOutcome(Head(done))
       IN /\ tgRet' = r
          /\ trace' = IF r = Nil
                      THEN trace \o <<Ev("exit_observed", Head(done).msg),
                                      Ev("graceful", "stderr")>>
                      ELSE Append(trace, Ev("exit_observed", Head(done).msg))
    /\ pc' = "tg_return"
    /\ UNCHANGED <<stdinIsTerminal, otherVars, dsig, termRaw, oldState, restoreCount, ret, selected>>
    /\ UNCHANGED <<stdinErr, escapeDetected, processDone, sigs>>
    /\ UNCHANGED <<childVars, srcVars, fwdVars, auxVars>>

\* case <-time.After(...): announce the timeout and cmd.Process.Kill().
TgSelectTimeout ==
    /\ pc = "tg_select"
    /\ GraceElapsed
    /\ IF SignalFails
       THEN /\ trace' = trace \o <<Ev("timeout", "stderr"), Ev("signal_failed", "SIGKILL")>>
            /\ tgRet' = Nil
            /\ pc' = "tg_return"
            /\ UNCHANGED delivered
       ELSE /\ trace' = trace \o <<Ev("timeout", "stderr"), Ev("signal", "SIGKILL")>>
            /\ delivered' = Deliver("SIGKILL")
            /\ pc' = "tg_waitdone"
            /\ UNCHANGED tgRet
    /\ UNCHANGED <<stdinIsTerminal, otherVars, dsig, termRaw, oldState, restoreCount, ret, selected>>
    /\ UNCHANGED <<child, childStatus, reaped>>
    /\ UNCHANGED <<srcVars, fwdVars, chanVars, auxVars>>

\* <-done after the kill; return nil
TgWaitDone ==
    /\ pc = "tg_waitdone"
    /\ done # <<>>
    /\ done' = Tail(done)
    /\ trace' = Append(trace, Ev("exit_observed", Head(done).msg))
    /\ tgRet' = Nil
    /\ pc' = "tg_return"
    /\ UNCHANGED <<stdinIsTerminal, otherVars, dsig, termRaw, oldState, restoreCount, ret, selected>>
    /\ UNCHANGED <<stdinErr, escapeDetected, processDone, sigs>>
    /\ UNCHANGED <<childVars, srcVars, fwdVars, auxVars>>

\* return terminateGracefully(cmd)
TgReturn ==
    /\ pc = "tg_return"
    /\ ret' = tgRet
    /\ pc' = "deferred"
    /\ UNCHANGED <<stdinIsTerminal, otherVars, dsig, termRaw, oldState, restoreCount, selected, tgRet, trace>>
    /\ UNCHANGED <<childVars, srcVars, fwdVars, chanVars, auxVars>>

\* ---------------------------------------------------------------- session commands
SessionCommands == {"start", "ssh", "scp", "fwd", "fwdrem"}

\* What each command looks up before it creates the session; a failure of
\* any of them goes to logErrorAndExit.
Lookups(c) ==
    CASE c = "start" -> <<"target">>
      [] c = "ssh" -> <<"ssh details">>
      [] c = "scp" -> <<"scp arguments", "target">>
      [] c = "fwd" -> <<"target", "ports">>
      [] c = "fwdrem" -> <<"target", "ports", "host">>

\* Values CallProcess hands back: nil, a wrapped start failure, the child's
\* exit error bare or wrapped, a failed read of local input.
ProxyResults ==
    {Nil, WrapError(Err("spawn error")), ExitErrorOf("exit status 7"),
     WrapError(ExitErrorOf("exit status 7")), Err("read error")}

SEv(name, arg) == [ev |-> name, arg |-> arg]

SHas(name) == \E i \in 1..Len(slog) : slog[i].ev = name

SArg(name) == slog[CHOOSE i \in 1..Len(slog) : slog[i].ev = name].arg

\* Lookups that have succeeded so far.
prepDone == Cardinality({i \in 1..Len(slog) : slog[i].ev = "lookup"})

\* session.SessionId, "none" before the session exists.
sessionId == IF SHas("created") THEN SArg("created") ELSE "none"

\* What CallProcess returned to the command.
proxyRet == IF SHas("proxy_returned") THEN SArg("proxy_returned") ELSE Unset

\* The status the gossm process ended with, "running" before.
exitCode == IF SHas("exit") THEN SArg("exit") ELSE "running"

\* logErrorAndExit(err): the message in red with the [err] tag, os.Exit(1).
LogErrorAndExit(what) == <<SEv("fatal", what), SEv("exit", 1)>>

\* A lookup succeeds.
SessLookupOK ==
    /\ spc = "prepare"
    /\ prepDone < Len(Lookups(scmd))
    /\ slog' = Append(slog, SEv("lookup", Lookups(scmd)[prepDone + 1]))
    /\ spc' = IF prepDone + 1 = Len(Lookups(scmd)) THEN "create" ELSE "prepare"
    /\ UNCHANGED scmd
    /\ UNCHANGED <<proxyVars, dispVars>>

\* A lookup fails.
SessLookupFail ==
    /\ spc = "prepare"
    /\ prepDone < Len(Lookups(scmd))
    /\ slog' = slog \o LogErrorAndExit(Lookups(scmd)[prepDone + 1])
    /\ spc' = "exited"
    /\ UNCHANGED scmd
    /\ UNCHANGED <<proxyVars, dispVars>>

\* CreateStartSession fails: the error reaches logErrorAndExit.
SessCreateFail ==
    /\ spc = "create"
    /\ slog' = slog \o LogErrorAndExit("create session")
    /\ spc' = "exited"
    /\ UNCHANGED scmd
    /\ UNCHANGED <<proxyVars, dispVars>>

\* CreateStartSession succeeds; the command goes on to call the proxy.
SessCreateOK ==
    /\ spc = "create"
    /\ slog' = Append(slog, SEv("created", "sid"))
    /\ spc' = "proxy"
    /\ UNCHANGED scmd
    /\ UNCHANGED <<proxyVars, dispVars>>

\* internal.CallProcess returns.
SessProxyReturn ==
    /\ spc = "proxy"
    /\ \E r \in ProxyResults :
          /\ slog' = Append(slog, SEv("proxy_returned", r))
          /\ spc' = IF r = Nil THEN "terminate" ELSE "report"
    /\ UNCHANGED scmd
    /\ UNCHANGED <<proxyVars, dispVars>>

\* The command giving up once it has printed the proxy's error.
AfterProxyErrorExit == "exited"

\* Where the command goes once it has printed the proxy's error: on to the
\* clean-up below the if.
AfterProxyError == "terminate"

\* if err != nil { color.Red(...) }
SessReport ==
    /\ spc = "report"
    /\ slog' = slog \o <<SEv("red", proxyRet.msg)>>
                    \o (IF AfterProxyError = "exited" THEN <<SEv("exit", 1)>> ELSE <<>>)
    /\ spc' = AfterProxyError
    /\ UNCHANGED scmd
    /\ UNCHANGED <<proxyVars, dispVars>>

\* terminateSession / DeleteStartSession succeeds; Run returns and the
\* process ends with status 0.
SessTerminateOK ==
    /\ spc = "terminate"
    /\ slog' = slog \o <<SEv("terminate", sessionId), SEv("exit", 0)>>
    /\ spc' = "exited"
    /\ UNCHANGED scmd
    /\ UNCHANGED <<proxyVars, dispVars>>

\* terminateSession / DeleteStartSession fails: logErrorAndExit.
SessTerminateFail ==
    /\ spc = "terminate"
    /\ slog' = slog \o <<SEv("terminate", sessionId)>> \o LogErrorAndExit("terminate session")
    /\ spc' = "exited"
    /\ UNCHANGED scmd
    /\ UNCHANGED <<proxyVars, dispVars>>

\* ---------------------------------------------------------------- command dispatcher
MaxTargets == 3

\* CommandInvocationStatus values of the service.
Statuses == {"Pending", "InProgress", "Delayed", "Success", "Cancelled",
             "TimedOut", "Failed", "Cancelling"}

\* strings.ToLower over the status strings.
ToLower(s) ==
    CASE s = "Pending" -> "pending"
      [] s = "InProgress" -> "inprogress"
      [] s = "Delayed" -> "delayed"
      [] s = "Success" -> "success"
      [] s = "Cancelled" -> "cancelled"
      [] s = "TimedOut" -> "timedout"
      [] s = "Failed" -> "failed"
      [] s = "Cancelling" -> "cancelling"
      [] OTHER -> s

\* The status compared as the service spelled it.
StatusAsIs(s) == s

\* status := strings.ToLower(string(output.Status))
StatusKey(s) == ToLower(s)

\* The switch over the lower-cased status.
Classify(status) ==
    IF status \in {"pending", "inprogress", "delayed"} THEN "continue"
    ELSE IF status = "success" THEN "succeeded"
    ELSE "failed"

\* What GetCommandInvocation answers for target t with status s.
Output(t, s) ==
    [Status |-> s, InstanceId |-> t,
     StandardOutputContent |-> <<"stdout", t>>,
     StandardErrorContent |-> <<"stderr", t>>]

Line(marker, id, text) == [marker |-> marker, id |-> id, text |-> text]

\* The error line showing the captured standard output.
FailureTextStdout(output) == output.StandardOutputContent

\* Text of the "error" line.
FailureText(output) == output.StandardErrorContent

\* wg.Wait() letting the dispatcher through whatever the counter is.
WaitGroupIgnored(n) == TRUE

\* wg.Wait() returns when the counter is zero.
WaitGroupReleased(n) == n = 0

\* How many watchers the range loop has started, in the order of inputs.
spawned == Cardinality({i \in 1..Len(inputs) : wstate[inputs[i]] # "unstarted"})

\* for _, input := range inputs { wg.Add(1); go monitorCommandInvocation(...) }
DispatchSpawn ==
    /\ dpc = "spawn"
    /\ spawned < Len(inputs)
    /\ wg' = wg + 1
    /\ wstate' = [wstate EXCEPT ![inputs[spawned + 1]] = "polling"]
    /\ UNCHANGED <<dpc, inputs, lastStatus, lines>>
    /\ UNCHANGED <<proxyVars, sessVars>>

\* wg.Wait() returns and so does PrintCommandInvocation.
DispatchWait ==
    /\ dpc = "spawn"
    /\ spawned = Len(inputs)
    /\ WaitGroupReleased(wg)
    /\ dpc' = "returned"
    /\ UNCHANGED <<inputs, wg, wstate, lastStatus, lines>>
    /\ UNCHANGED <<proxyVars, sessVars>>

\* A watcher returning without telling the WaitGroup.
WgDoneMissing(n) == n

\* defer wg.Done(): the counter once a watcher has returned.
WgDone(n) == n - 1

\* fmt.Printf writing the line verb by verb.
PrintfWritesPerVerb(line) ==
    <<Line("piece", line.id, line.marker), Line("piece", line.id, line.id),
      Line("piece", line.id, line.text)>>

\* fmt.Printf formats the whole line and hands it to os.Stdout in one Write.
PrintfWrites(line) == <<line>>

\* The error a failed GetCommandInvocation call returns: the context's once
\* it is cancelled, the service's or the transport's otherwise.
PollErr == IF ctxDone THEN "context canceled" ELSE "api error"

\* The instance-id field of a line that carries no instance id.
NoTarget == 0

\* color.Red("Failed to get command invocation: %v", err): the error alone,
\* no instance id.
FailedPollLine(t, err) == Line("failed to get", NoTarget, err)

\* The context handed to the watchers is cancelled.
CtxCancel ==
    /\ dpc = "spawn"
    /\ ~ctxDone
    /\ ctxDone' = TRUE
    /\ UNCHANGED <<pipeClosed, wpc, twpc, timer, sigCount>>
    /\ UNCHANGED <<mainVars, childVars, srcVars, fwdVars, chanVars>>

\* case <-ctx.Done(): return, and the deferred wg.Done runs.
WatcherCancelled(t) ==
    /\ wstate[t] = "polling"
    /\ ctxDone
    /\ wstate' = [wstate EXCEPT ![t] = "cancelled"]
    /\ wg' = WgDone(wg)
    /\ UNCHANGED <<dpc, inputs, lastStatus, lines>>
    /\ UNCHANGED <<proxyVars, sessVars>>

\* case <-ticker.C: GetCommandInvocation fails; the watcher prints the
\* failure in red and returns, and the deferred wg.Done runs.
WatcherPollError(t) ==
    /\ wstate[t] = "polling"
    /\ lines' = Append(lines, FailedPollLine(t, PollErr))
    /\ wstate' = [wstate EXCEPT ![t] = "errored"]
    /\ wg' = WgDone(wg)
    /\ UNCHANGED <<dpc, inputs, lastStatus>>
    /\ UNCHANGED <<proxyVars, sessVars>>

\* case <-ticker.C: GetCommandInvocation answers with a status.
WatcherPoll(t) ==
    /\ wstate[t] = "polling"
    /\ ~ctxDone
    /\ \E s \in Statuses :
          LET output == Output(t, s)
              verdict == Classify(StatusKey(output.Status))
          IN /\ lastStatus' = [lastStatus EXCEPT ![t] = output.Status]
             /\ IF verdict = "continue"
                   THEN UNCHANGED <<wstate, wg, lines>>
                   ELSE /\ wstate' = [wstate EXCEPT ![t] = verdict]
                        /\ wg' = WgDone(wg)
                        /\ lines' = lines \o PrintfWrites(
                              IF verdict = "succeeded"
                                 THEN Line("success", output.InstanceId,
                                           output.StandardOutputContent)
                                 ELSE Line("error", output.InstanceId,
                                           FailureText(output)))
    /\ UNCHANGED <<dpc, inputs>>
    /\ UNCHANGED <<proxyVars, sessVars>>

\* ---------------------------------------------------------------- specifications
SrcEnds == {"block", "eof", "err"}

\* The proxy call has not begun.
ProxyEntry ==
    /\ pc = "entry"
    /\ termRaw = FALSE
    /\ oldState = FALSE
    /\ dsig = "idle"
    /\ restoreCount = 0
    /\ ret = Unset
    /\ selected = "none"
    /\ tgRet = Unset
    /\ trace = <<>>
    /\ child = "none"
    /\ childStatus = "none"
    /\ reaped = FALSE
    /\ delivered = {}
    /\ consumed = <<>>
    /\ fpc = "idle"
    /\ lastWasNewline = FALSE
    /\ tildeSeen = FALSE
    /\ out = <<>>
    /\ fret = Unset
    /\ escaped = FALSE
    /\ ctxDone = FALSE
    /\ pipeClosed = FALSE
    /\ stdinErr = <<>>
    /\ escapeDetected = <<>>
    /\ processDone = <<>>
    /\ sigs = <<>>
    /\ done = <<>>
    /\ wpc = "idle"
    /\ twpc = "idle"
    /\ timer = "off"
    /\ sigCount = 0

\* No session command is running.
SessionIdle ==
    /\ scmd = "none"
    /\ spc = "idle"
    /\ slog = <<>>

\* No command has been dispatched.
DispatchIdle ==
    /\ dpc = "idle"
    /\ inputs = <<>>
    /\ wg = 0
    /\ wstate = <<>>
    /\ lastStatus = <<>>
    /\ lines = <<>>

Init ==
    /\ ProxyEntry
    /\ stdinIsTerminal \in BOOLEAN
    /\ input \in SeqsUpTo(Keys, MaxIn)
    /\ srcEnd \in SrcEnds
    /\ SessionIdle
    /\ DispatchIdle

Next ==
    \/ DirectStartFail \/ DirectStart \/ DirectWait \/ ChildRead
    \/ DirectSigAbsorb \/ DirectSigExit
    \/ StdinPipeFail \/ StartFail \/ StartOK
    \/ MakeRawFail \/ RawFailWait \/ MakeRawOK
    \/ Setup
    \/ SelectProcessDone \/ SelectEscape \/ SelectSignal \/ SelectStdinErr
    \/ SigWait \/ ErrWait \/ Deferred
    \/ TgSignal \/ TgSelectDone \/ TgSelectTimeout \/ TgWaitDone \/ TgReturn
    \/ FwdCancelled \/ FwdEnterRead \/ FwdReadByte \/ FwdReadEOF \/ FwdReadErr \/ FwdReturn
    \/ WaiterDone \/ TgWaiterDone
    \/ ChildExit \/ SigArrive \/ TimerFire

Spec == Init /\ [][Next]_vars

\* The forwarding loop alone, over every short local input: the state right
\* after Setup, with the child alive, nothing cancelled and only the
\* forwarding goroutine running.
InitScan ==
    /\ SessionIdle
    /\ DispatchIdle
    /\ pc = "select"
    /\ stdinIsTerminal = TRUE
    /\ termRaw = TRUE
    /\ oldState = FALSE
    /\ dsig = "idle"
    /\ restoreCount = 0
    /\ ret = Unset
    /\ selected = "none"
    /\ tgRet = Unset
    /\ trace = <<>>
    /\ child = "running"
    /\ childStatus = "none"
    /\ reaped = FALSE
    /\ delivered = {}
    /\ input \in SeqsUpTo(Byte, MaxLen)
    /\ srcEnd \in SrcEnds
    /\ consumed = <<>>
    /\ fpc = "check"
    /\ lastWasNewline = TRUE
    /\ tildeSeen = FALSE
    /\ out = <<>>
    /\ fret = Unset
    /\ escaped = FALSE
    /\ ctxDone = FALSE
    /\ pipeClosed = FALSE
    /\ stdinErr = <<>>
    /\ escapeDetected = <<>>
    /\ processDone = <<>>
    /\ sigs = <<>>
    /\ done = <<>>
    /\ wpc = "wait"
    /\ twpc = "idle"
    /\ timer = "off"
    /\ sigCount = 0

NextScan ==
    \/ FwdEnterRead \/ FwdReadByte \/ FwdReadEOF \/ FwdReadErr \/ FwdReturn

SpecScan == InitScan /\ [][NextScan]_vars

\* A session command alone, the proxy call being one step of it that hands
\* back any of its results.
InitSession ==
    /\ ProxyEntry
    /\ stdinIsTerminal = TRUE
    /\ input = <<>>
    /\ srcEnd = "block"
    /\ DispatchIdle
    /\ scmd \in SessionCommands
    /\ spc = "prepare"
    /\ slog = <<>>

NextSession ==
    \/ SessLookupOK \/ SessLookupFail
    \/ SessCreateFail \/ SessCreateOK
    \/ SessProxyReturn \/ SessReport
    \/ SessTerminateOK \/ SessTerminateFail

SpecSession == InitSession /\ [][NextSession]_vars

\* The command dispatcher alone, entered with one input per target.
InitDispatch ==
    /\ ProxyEntry
    /\ stdinIsTerminal = TRUE
    /\ input = <<>>
    /\ srcEnd = "block"
    /\ SessionIdle
    /\ dpc = "spawn"
    /\ \E n \in 1..MaxTargets : inputs = [i \in 1..n |-> i]
    /\ wg = 0
    /\ wstate = [t \in 1..Len(inputs) |-> "unstarted"]
    /\ lastStatus = [t \in 1..Len(inputs) |-> "none"]
    /\ lines = <<>>

NextDispatch ==
    \/ DispatchSpawn \/ DispatchWait
    \/ \E t \in 1..Len(inputs) : WatcherPoll(t)
    \/ \E t \in 1..Len(inputs) : WatcherPollError(t)

SpecDispatch == InitDispatch /\ [][NextDispatch]_vars

\* ---- the signal path of the proxy, with further signals
\* The signals the child has been sent once a further signal has arrived
\* during <-processDone, were it passed on as the first one was.
ForwardedWhileWaitingToo(sig) == Deliver(sig)

\* The signals the child has been sent once a further signal has arrived
\* during <-processDone: nothing receives from sigs there, so the same ones.
ForwardedWhileWaiting(sig) == delivered

\* A further SIGINT/SIGTERM reaches gossm while the signal case waits for
\* the child: signal.Notify puts it into sigs if there is room.
SigArriveWhileWaiting ==
    /\ pc = "sig_wait"
    /\ sigCount >= MaxSigs
    /\ sigCount < MaxSigs + MaxLateSigs
    /\ \E sig \in NotifiedSignals :
          /\ sigs' = IF Len(sigs) < 1 THEN Push(sigs, sig) ELSE sigs
          /\ delivered' = ForwardedWhileWaiting(sig)
    /\ sigCount' = sigCount + 1
    /\ UNCHANGED <<child, childStatus, reaped>>
    /\ UNCHANGED <<stdinErr, escapeDetected, processDone, done>>
    /\ UNCHANGED <<ctxDone, pipeClosed, wpc, twpc, timer>>
    /\ UNCHANGED <<mainVars, srcVars, fwdVars>>

\* The proxy at its select with the child alive, and at most one plain byte
\* of local input.
InitSigPath ==
    /\ SessionIdle
    /\ DispatchIdle
    /\ pc = "select"
    /\ stdinIsTerminal = TRUE
    /\ termRaw = TRUE
    /\ oldState = FALSE
    /\ dsig = "idle"
    /\ restoreCount = 0
    /\ ret = Unset
    /\ selected = "none"
    /\ tgRet = Unset
    /\ trace = <<>>
    /\ child = "running"
    /\ childStatus = "none"
    /\ reaped = FALSE
    /\ delivered = {}
    /\ input \in SeqsUpTo({LF}, 1)
    /\ srcEnd \in SrcEnds
    /\ consumed = <<>>
    /\ fpc = "check"
    /\ lastWasNewline = TRUE
    /\ tildeSeen = FALSE
    /\ out = <<>>
    /\ fret = Unset
    /\ escaped = FALSE
    /\ ctxDone = FALSE
    /\ pipeClosed = FALSE
    /\ stdinErr = <<>>
    /\ escapeDetected = <<>>
    /\ processDone = <<>>
    /\ sigs = <<>>
    /\ done = <<>>
    /\ wpc = "wait"
    /\ twpc = "idle"
    /\ timer = "off"
    /\ sigCount = 0

NextSigPath ==
    \/ SelectProcessDone \/ SelectSignal \/ SelectStdinErr
    \/ SigWait \/ ErrWait \/ Deferred
    \/ FwdCancelled \/ FwdEnterRead \/ FwdReadByte \/ FwdReadEOF \/ FwdReadErr \/ FwdReturn
    \/ WaiterDone \/ ChildExit
    \/ SigArrive \/ SigArriveWhileWaiting

SpecSigPath == InitSigPath /\ [][NextSigPath]_vars

\* ---- the --target flag of start, fwd and fwdrem
\* The instances FindInstances knows.
Instances == {"i-1", "i-2"}

\* What the user may have given as -t/--target; "" is the flag's default.
FlagValues == {"", "i-1", " i-2 ", "i-9"}

\* strings.TrimSpace on those values.
TrimSpace(v) == IF v = " i-2 " THEN "i-2" ELSE v

\* Commands with a --target flag whose target comes from getTargetInstance
\* or getProxyInstance.
TargetCommands == {"start", "fwd", "fwdrem"}

\* The init functions of fwd and fwdrem both bind the key fwd-target; the
\* binding made last stays, and which init runs last depends on the order of
\* the files in the package.
LastBinders == {"fwd", "fwdrem"}

\* The command whose target flag a viper key is bound to.
FlagOwner(key, lastBinder) ==
    CASE key = "start-session-target" -> "start"
      [] key = "fwd-target" -> lastBinder

\* The invocation: the command line's -t value and the binding in force.
invocation == SArg("invoked")

\* viper.GetString(key): the value of the bound flag, which is what the user
\* gave only if the flag belongs to the command that was invoked; the flags
\* of the other commands keep their default.
ViperGetString(key) ==
    IF FlagOwner(key, invocation.lastBinder) = scmd
    THEN invocation.flag
    ELSE ""

\* The key getTargetInstance and getProxyInstance read.
TargetKey == "fwd-target"

argTarget == TrimSpace(ViperGetString(TargetKey))

\* What follows a successful target lookup.
TargetFound(name, source) ==
    /\ slog' = slog \o <<SEv("target", [name |-> name, source |-> source]),
                         SEv("lookup", "target")>>
    /\ spc' = IF Len(Lookups(scmd)) = 1 THEN "create" ELSE "prepare"

\* argTarget != "": findSpecificInstance looks the name up; an unknown name
\* and a failed FindInstances end in logErrorAndExit.
GetTargetFromFlag ==
    /\ spc = "target"
    /\ argTarget # ""
    /\ \E listed \in BOOLEAN :
          IF listed /\ argTarget \in Instances
          THEN TargetFound(argTarget, "flag")
          ELSE /\ slog' = slog \o LogErrorAndExit("target")
               /\ spc' = "exited"
    /\ UNCHANGED scmd
    /\ UNCHANGED <<proxyVars, dispVars>>

\* argTarget == "": internal.AskTarget shows the prompt and the user picks an
\* instance, or the prompt fails.
GetTargetPrompt ==
    /\ spc = "target"
    /\ argTarget = ""
    /\ \/ \E choice \in Instances :
             /\ slog' = slog \o <<SEv("prompt", "Choose a target in AWS:"),
                                  SEv("target", [name |-> choice, source |-> "prompt"]),
                                  SEv("lookup", "target")>>
             /\ spc' = IF Len(Lookups(scmd)) = 1 THEN "create" ELSE "prepare"
       \/ /\ slog' = slog \o <<SEv("prompt", "Choose a target in AWS:")>>
                          \o LogErrorAndExit("target")
          /\ spc' = "exited"
    /\ UNCHANGED scmd
    /\ UNCHANGED <<proxyVars, dispVars>>

InitTarget ==
    /\ ProxyEntry
    /\ stdinIsTerminal = TRUE
    /\ input = <<>>
    /\ srcEnd = "block"
    /\ DispatchIdle
    /\ scmd \in TargetCommands
    /\ spc = "target"
    /\ \E v \in FlagValues, lb \in LastBinders :
          slog = <<SEv("invoked", [flag |-> v, lastBinder |-> lb])>>

NextTarget ==
    \/ GetTargetFromFlag \/ GetTargetPrompt
    \/ NextSession

SpecTarget == InitTarget /\ [][NextTarget]_vars

\* ---- the cmd command: runCommand
\* The command's state uses the session variables: scmd = "cmd", spc is the
\* position in runCommand, slog the calls it has made.

\* The targets findTargetInstances hands back: one Target per chosen
\* instance, its Name holding the instance id.
TargetLists == {[i \in 1..n |-> [Name |-> i]] : n \in 1..MaxTargets}

\* SendCommand sending only the first target's id.
InstanceIDsFirstOnly(targets) == <<targets[1].Name>>

\* SendCommand's loop: the Name of every target, in order.
InstanceIDs(targets) == [i \in 1..Len(targets) |-> targets[i].Name]

\* sendOutput.Command.InstanceIds: the service echoes the ids of the request.
ResponseIds(request) == request

\* The targets runCommand found.
cmdTargets == SArg("targets")

\* The exit status following the per-target results.
CmdExitCodeByResults ==
    IF \E t \in 1..Len(wstate) : wstate[t] \in {"failed", "errored"} THEN 1 ELSE 0

\* runCommand returns after displayCommandResults: the process ends with 0.
CmdExitCode == 0

\* viper's cmd-exec is empty: logErrorAndExit.
CmdNoExec ==
    /\ scmd = "cmd" /\ spc = "exec"
    /\ slog' = slog \o LogErrorAndExit("no command specified")
    /\ spc' = "exited"
    /\ UNCHANGED scmd
    /\ UNCHANGED <<proxyVars, dispVars>>

\* A command to execute was given.
CmdExecOK ==
    /\ scmd = "cmd" /\ spc = "exec"
    /\ slog' = Append(slog, SEv("lookup", "command"))
    /\ spc' = "targets"
    /\ UNCHANGED scmd
    /\ UNCHANGED <<proxyVars, dispVars>>

\* findTargetInstances fails: logErrorAndExit.
CmdTargetsFail ==
    /\ scmd = "cmd" /\ spc = "targets"
    /\ slog' = slog \o LogErrorAndExit("targets")
    /\ spc' = "exited"
    /\ UNCHANGED scmd
    /\ UNCHANGED <<proxyVars, dispVars>>

\* findTargetInstances returns the targets.
CmdTargetsOK ==
    /\ scmd = "cmd" /\ spc = "targets"
    /\ \E targets \in TargetLists :
          slog' = Append(slog, SEv("targets", targets))
    /\ spc' = "send"
    /\ UNCHANGED scmd
    /\ UNCHANGED <<proxyVars, dispVars>>

\* internal.SendCommand: one client.SendCommand call, which fails.
CmdSendFail ==
    /\ scmd = "cmd" /\ spc = "send"
    /\ slog' = Append(slog, SEv("send_command", InstanceIDs(cmdTargets)))
                  \o LogErrorAndExit("send command")
    /\ spc' = "exited"
    /\ UNCHANGED scmd
    /\ UNCHANGED <<proxyVars, dispVars>>

\* internal.SendCommand: one client.SendCommand call, which succeeds.
CmdSendOK ==
    /\ scmd = "cmd" /\ spc = "send"
    /\ LET request == InstanceIDs(cmdTargets)
       IN slog' = slog \o <<SEv("send_command", request),
                            SEv("sent", ResponseIds(request))>>
    /\ spc' = "results"
    /\ UNCHANGED scmd
    /\ UNCHANGED <<proxyVars, dispVars>>

\* displayCommandResults: the warm-up sleep, one GetCommandInvocationInput
\* per instance id of the response, then PrintCommandInvocation is entered.
CmdDisplayResults ==
    /\ scmd = "cmd" /\ spc = "results"
    /\ dpc = "idle"
    /\ inputs' = SArg("sent")
    /\ wstate' = [t \in 1..Len(inputs') |-> "unstarted"]
    /\ lastStatus' = [t \in 1..Len(inputs') |-> "none"]
    /\ dpc' = "spawn"
    /\ spc' = "watching"
    /\ UNCHANGED <<scmd, slog, wg, lines>>
    /\ UNCHANGED proxyVars

\* PrintCommandInvocation has returned and so do displayCommandResults and
\* runCommand.
CmdReturn ==
    /\ scmd = "cmd" /\ spc = "watching"
    /\ dpc = "returned"
    /\ slog' = Append(slog, SEv("exit", CmdExitCode))
    /\ spc' = "exited"
    /\ UNCHANGED scmd
    /\ UNCHANGED <<proxyVars, dispVars>>

InitCmd ==
    /\ ProxyEntry
    /\ stdinIsTerminal = TRUE
    /\ input = <<>>
    /\ srcEnd = "block"
    /\ DispatchIdle
    /\ scmd = "cmd"
    /\ spc = "exec"
    /\ slog = <<>>

NextCmd ==
    \/ CmdNoExec \/ CmdExecOK
    \/ CmdTargetsFail \/ CmdTargetsOK
    \/ CmdSendFail \/ CmdSendOK
    \/ CmdDisplayResults
    \/ DispatchSpawn \/ DispatchWait
    \/ \E t \in 1..Len(inputs) : WatcherPoll(t)
    \/ \E t \in 1..Len(inputs) : WatcherPollError(t)
    \/ CmdReturn

SpecCmd == InitCmd /\ [][NextCmd]_vars

\* The dispatcher under fair scheduling of its own goroutine: the spawn loop
\* goes on while it can, and wg.Wait returns once the counter stays at zero.
\* Nothing is assumed about when a watcher polls or what its polls report.
FairDispatch ==
    /\ SpecDispatch
    /\ WF_vars(DispatchSpawn)
    /\ WF_vars(DispatchWait)

\* The dispatcher with a context that its caller may cancel.
NextWatch ==
    \/ DispatchSpawn \/ DispatchWait
    \/ \E t \in 1..Len(inputs) : WatcherPoll(t)
    \/ \E t \in 1..Len(inputs) : WatcherPollError(t)
    \/ \E t \in 1..Len(inputs) : WatcherCancelled(t)
    \/ CtxCancel

SpecWatch == InitDispatch /\ [][NextWatch]_vars


\* ---------------------------------------------------------------- properties
\* Position i of the stream s is a line start: the stream start, or right
\* after a CR or LF byte.
AtLineStart(s, i) == i = 1 \/ IsNewline(s[i - 1])

HasTildeAtLineStart(s) ==
    \E i \in 1..Len(s) : s[i] = Tilde /\ AtLineStart(s, i)

Has(ev, arg) == \E i \in 1..Len(trace) : trace[i].ev = ev /\ trace[i].arg = arg
HasEv(ev) == \E i \in 1..Len(trace) : trace[i].ev = ev

\* C1: whenever the proxy call has returned, by whichever path, the local
\* terminal is in the mode it had on entry, that is not in raw mode.
C1_TerminalRestoredOnReturn ==
    pc = "returned" => termRaw = FALSE

\* A return through the select, raw mode having been entered and left.
C1_Witness ==
    /\ pc = "returned"
    /\ selected = "stdinErr"
    /\ restoreCount = 1

\* C2: the scanner has signalled escape only if the last two bytes it
\* consumed are `~` then `.` and that `~` stood at a line start; the scanner
\* consumes nothing after signalling, so no other position triggers.
C2_EscapeOnlyAtLineStart ==
    escaped =>
        LET n == Len(consumed)
        IN /\ n >= 2
           /\ consumed[n] = Dot
           /\ consumed[n - 1] = Tilde
           /\ AtLineStart(consumed, n - 1)

\* Escape recognised after a line break in mid-stream.
C2_Witness ==
    /\ escaped
    /\ consumed = <<Slash, CR, Tilde, Dot>>

\* C3: if the stream (consumed and still to come) has no `~` at a line
\* start, then at every point the bytes written to the child are exactly
\* the bytes consumed, and escape is never signalled.
C3_PlainStreamForwardedUnchanged ==
    ~HasTildeAtLineStart(consumed \o input) =>
        /\ out = consumed
        /\ ~escaped
        /\ escapeDetected = <<>>

\* A stream with `~.` in mid-line went through whole.
C3_Witness ==
    /\ consumed = <<Slash, Tilde, Dot>>
    /\ input = <<>>
    /\ fpc = "done"

\* C4 as stated: after newline, `~`, `.` from the initial state escape is
\* signalled and nothing of the three bytes has reached the child.
C4_Original ==
    consumed = <<LF, Tilde, Dot>> =>
        /\ escaped
        /\ out = <<>>

\* C4 (amended): after newline, `~`, `.` from the initial state escape is
\* signalled and neither the `~` nor the `.` has reached the child; the
\* newline, an ordinary byte consumed before the sequence, has.
C4_EscapeForwardsOnlyNewline ==
    consumed = <<LF, Tilde, Dot>> =>
        /\ escaped
        /\ escapeDetected = <<TRUE>>
        /\ out = <<LF>>

C4_Witness ==
    /\ consumed = <<LF, Tilde, Dot>>
    /\ escaped

\* C5: after newline, `~`, x with x other than `.`, the child has received
\* `~` x (after the newline), escape is not signalled, the scanner is not
\* tilde-armed, and it is at a line start iff x is CR or LF.
C5_TildeThenOtherForwarded ==
    \A x \in Byte \ {Dot} :
        consumed = <<LF, Tilde, x>> =>
            /\ out = <<LF, Tilde, x>>
            /\ ~escaped
            /\ escapeDetected = <<>>
            /\ ~tildeSeen
            /\ lastWasNewline = IsNewline(x)

\* `~` followed by a line break after a newline.
C5_Witness ==
    /\ consumed = <<LF, Tilde, CR>>
    /\ lastWasNewline


\* Index of the first entry of trace with this event and argument (0: none).
First(ev, arg) ==
    IF Has(ev, arg)
    THEN CHOOSE i \in 1..Len(trace) :
            /\ trace[i].ev = ev /\ trace[i].arg = arg
            /\ \A j \in 1..(i - 1) : ~(trace[j].ev = ev /\ trace[j].arg = arg)
    ELSE 0

FirstEv(ev) ==
    IF HasEv(ev)
    THEN CHOOSE i \in 1..Len(trace) :
            /\ trace[i].ev = ev
            /\ \A j \in 1..(i - 1) : trace[j].ev # ev
    ELSE 0

Count(ev) == Cardinality({i \in 1..Len(trace) : trace[i].ev = ev})

C7_EscapeOrder ==
    selected = "escape" =>
        /\ Has("announce", "stderr")
        /\ FirstEv("restore") < FirstEv("announce")
        /\ \A i \in 1..Len(trace) :
              /\ trace[i].ev = "announce" => ~trace[i].raw
              /\ trace[i].ev \in {"signal", "signal_failed"} => FirstEv("announce") < i
        /\ pc \in {"deferred", "returned"} => (tgRet # Unset /\ ret = tgRet)

\* C7: once the scanner has signalled escape no further byte reaches the
\* child, and on the escape path restore, announcement, termination
\* protocol and return follow in that order.
C7_EscapePath ==
    /\ [](C7_EscapeOrder)
    /\ [][escaped => out' = out]_vars

\* The escape path was taken with a byte still waiting on local input, the
\* termination request went out and the call returned.
C7_Witness ==
    /\ pc = "returned"
    /\ selected = "escape"
    /\ input # <<>>
    /\ Has("signal", "SIGTERM")


KillAt(i) == trace[i].ev \in {"signal", "signal_failed"} /\ trace[i].arg = "SIGKILL"

\* terminateGracefully has returned.
ProtocolReturned == selected = "escape" /\ pc \in {"tg_return", "deferred", "returned"}

\* C8, state part: a force-kill is attempted only in the timeout case, after
\* the termination request was sent and the grace timer fired, the protocol
\* not having received the child's exit before; if the protocol received
\* the child's exit without the timeout case having been taken, no
\* force-kill is ever attempted; and once a force-kill was delivered the
\* protocol returns only after it received the child's exit, the child
\* having ended.
C8_KillOrder ==
    /\ \A k \in 1..Len(trace) :
          KillAt(k) =>
              /\ timer = "fired"
              /\ \E j \in 1..(k - 1) : trace[j].ev = "signal" /\ trace[j].arg = "SIGTERM"
              /\ \A j \in 1..(k - 1) : trace[j].ev # "exit_observed"
              /\ trace[k - 1].ev = "timeout"
    /\ (selected = "escape" /\ HasEv("exit_observed") /\ ~HasEv("timeout")) =>
          /\ ~Has("signal", "SIGKILL")
          /\ ~Has("signal_failed", "SIGKILL")
          /\ "SIGKILL" \notin delivered
    /\ (ProtocolReturned /\ Has("signal", "SIGKILL")) =>
          /\ First("signal", "SIGKILL") < FirstEv("exit_observed")
          /\ child = "exited"
          /\ reaped

\* The step in which Kill goes out to the child.
KillSentStep == ~Has("signal", "SIGKILL") /\ Has("signal", "SIGKILL")'

\* C8: the force-kill goes out only after the termination request was sent
\* and the grace timer fired while no waiter had yet seen the child end; a
\* child whose exit the protocol received in time is never force-killed;
\* after a delivered force-kill the protocol returns only once it received
\* the child's exit.
C8_KillOnlyAfterGrace ==
    /\ [](C8_KillOrder)
    /\ [][KillSentStep =>
            /\ Has("signal", "SIGTERM")
            /\ timer = "fired"
            /\ ~reaped
            /\ done = <<>>]_vars

\* The child ignored the termination request, was killed after the grace
\* period, and the protocol returned.
C8_Witness ==
    /\ ProtocolReturned
    /\ Has("signal", "SIGKILL")
    /\ childStatus = "signal: killed"

NoChildMsgs == {e.msg : e \in NoChildErrors}

\* C9: terminateGracefully returns nil when the termination request found
\* the child gone, when the force-kill found it gone, and when the wait on
\* the child reported that there is no child (the cmd.Wait goroutine had
\* collected it).
C9_GoneChildIsSuccess ==
    ProtocolReturned =>
        /\ Has("signal_failed", "SIGTERM") => tgRet = Nil
        /\ Has("signal_failed", "SIGKILL") => tgRet = Nil
        /\ (\E i \in 1..Len(trace) :
               trace[i].ev = "exit_observed" /\ trace[i].arg \in NoChildMsgs) => tgRet = Nil

\* The cmd.Wait goroutine collected the child first and the protocol was
\* told there is no child.
C9_Witness ==
    /\ ProtocolReturned
    /\ Has("exit_observed", "wait: no child processes")
    /\ wpc = "done"

\* C10: when a signal is the selected event, the proxy passes that same
\* signal on to the child before anything else, then receives the child's
\* exit, then restores the terminal, and returns nil whatever the child's
\* exit status was.
C10_SignalPath ==
    selected = "signal" =>
        /\ trace[1].ev = "received"
        /\ trace[1].arg \in Signals
        /\ trace[2].ev \in {"signal", "signal_failed"}
        /\ trace[2].arg = trace[1].arg
        /\ \A i \in 3..Len(trace) : trace[i].ev \notin {"signal", "signal_failed"}
        /\ pc \in {"deferred", "returned"} =>
              /\ HasEv("exit_observed")
              /\ child = "exited"
              /\ ret = Nil
        /\ pc = "returned" =>
              /\ FirstEv("exit_observed") < FirstEv("restore")
              /\ ~termRaw

\* SIGINT was selected, reached the live child, the child ended with a
\* failure code and the call returned.
C10_Witness ==
    /\ pc = "returned"
    /\ selected = "signal"
    /\ Has("signal", "SIGINT")
    /\ "SIGINT" \in delivered
    /\ childStatus = "exit status 7"

\* C11: when the forwarding loop's result is the selected event, the proxy
\* cancels the other watchers, then receives the child's exit, then restores
\* the terminal, and returns exactly the value the forwarding loop ended
\* with, undecorated.
C11_ForwardErrorPath ==
    selected = "stdinErr" =>
        /\ ctxDone
        /\ fpc = "done"
        /\ pc \in {"deferred", "returned"} =>
              /\ HasEv("exit_observed")
              /\ child = "exited"
              /\ ret = fret
        /\ pc = "returned" =>
              /\ FirstEv("exit_observed") < FirstEv("restore")
              /\ ~termRaw

\* The read of local input failed after a byte had been forwarded, that
\* failure was selected and the call returned it.
C11_Witness ==
    /\ pc = "returned"
    /\ selected = "stdinErr"
    /\ consumed # <<>>
    /\ fret = Err("read error")
    /\ ret = Err("read error")

\* C12: once the proxy has returned, the forwarding loop reads no further
\* byte from local input and writes no further byte to the child.
C12_NoReadAfterReturn ==
    [][pc = "returned" => (consumed' = consumed /\ out' = out)]_vars

\* C13 as written: on the non-terminal fallback the call returns the child's
\* exit error itself.
C13_Original ==
    (~stdinIsTerminal /\ pc = "returned" /\ child = "exited") =>
        ret = ExitErrorOf(childStatus)

\* C13: when local input is not a terminal the child runs on the caller's
\* own standard input: raw mode is never entered, the forwarding loop never
\* runs and consumes nothing, no escape is ever detected, and the call
\* returns the child's exit error wrapped with caller context (nil when the
\* child succeeded).
C13_DirectFallback ==
    ~stdinIsTerminal =>
        /\ ~termRaw
        /\ restoreCount = 0
        /\ ChildStdin = "os.Stdin"
        /\ fpc = "idle"
        /\ consumed = <<>>
        /\ ~escaped
        /\ escapeDetected = <<>>
        /\ selected = "none"
        /\ (pc = "returned" /\ child = "exited") =>
              ret = WrapError(ExitErrorOf(childStatus))

\* Not a terminal: the child itself read "~." at the start of a line, then
\* ended with a failure code, and the call returned.
C13_Witness ==
    /\ ~stdinIsTerminal
    /\ pc = "returned"
    /\ out = <<Tilde, Dot>>
    /\ childStatus = "exit status 7"
    /\ ret.wrapped

\* C14: after raw mode could not be entered, the already started child
\* receives the caller's local input: while it runs, a waiting local byte
\* can be read by it.
C14_ChildGetsLocalInput ==
    (HasEv("makeraw_failed") /\ child = "running" /\ input # <<>>) =>
        /\ ChildStdin = "os.Stdin"
        /\ ENABLED ChildRead

\* C15 as written: when the child could not be started, no forwarding,
\* process-wait or signal-wait task has been started and the terminal is
\* not raw.
C15_Original ==
    ret.msg = "spawn error" =>
        /\ ~termRaw
        /\ fpc = "idle"
        /\ wpc = "idle"
        /\ twpc = "idle"
        /\ dsig = "idle"

\* C15: a failed start of the child is returned wrapped with caller
\* context, with the terminal mode untouched; no forwarding or process-wait
\* task was started; on a terminal no signal is awaited either, and on the
\* non-terminal fallback the SIGINT-absorbing task started before the
\* attempt is told to stop as the error is returned.
C15_SpawnFailure ==
    /\ (pc = "returned" /\ child = "none") => (ret # Nil /\ ret.wrapped)
    /\ ret.msg = "spawn error" =>
          /\ ret = WrapError(Err("spawn error"))
          /\ child = "none"
          /\ ~termRaw
          /\ restoreCount = 0
          /\ fpc = "idle"
          /\ wpc = "idle"
          /\ twpc = "idle"
          /\ trace = <<>>
          /\ consumed = <<>>
          /\ out = <<>>
          /\ selected = "none"
          /\ stdinIsTerminal => (dsig = "idle" /\ sigs = <<>>)
          /\ ~stdinIsTerminal => dsig \in {"stopping", "done"}

\* On a terminal, with input waiting, the start of the child failed and the
\* call returned.
C15_Witness ==
    /\ pc = "returned"
    /\ stdinIsTerminal
    /\ input # <<>>
    /\ ret.msg = "spawn error"

\* ---------------------------------------------------------------- session commands: claims
TerminateCalls == {i \in 1..Len(slog) : slog[i].ev = "terminate"}

SessionCreated == sessionId # "none"

ProxyFailed == proxyRet \notin {Unset, Nil}

\* C16: in every session command, once the session was created,
\* terminate-session is called at most once, with that session's id, only
\* after the proxy has returned, and by the time the command has ended it
\* was called exactly once whether the proxy returned nil or an error;
\* without a session it is never called.
C16_TerminateOnceAfterProxy ==
    /\ Cardinality(TerminateCalls) <= 1
    /\ \A i \in TerminateCalls :
          /\ SessionCreated
          /\ slog[i].arg = sessionId
          /\ \E j \in 1..(i - 1) :
                /\ slog[j].ev = "proxy_returned"
                /\ \E k \in 1..(j - 1) : slog[k].ev = "created"
    /\ (spc = "exited" /\ SessionCreated) => Cardinality(TerminateCalls) = 1
    /\ ~SessionCreated => TerminateCalls = {}

\* fwdrem: the proxy returned an error, and the session was still
\* terminated once before the command ended.
C16_Witness ==
    /\ scmd = "fwdrem"
    /\ spc = "exited"
    /\ proxyRet = Err("read error")
    /\ Cardinality(TerminateCalls) = 1
    /\ exitCode = 0

\* C17: when the proxy returned an error, by the time the command has ended
\* the error was printed in red and the process ended with a non-zero
\* status.
C17_ProxyFailureExitsNonZero ==
    (spc = "exited" /\ ProxyFailed) =>
        /\ \E i \in 1..Len(slog) : slog[i].ev = "red" /\ slog[i].arg = proxyRet.msg
        /\ exitCode # 0

\* ---------------------------------------------------------------- command dispatcher: claims
Targets == 1..Len(inputs)

Finished == {"succeeded", "failed", "errored", "cancelled"}

ResultLines == {i \in 1..Len(lines) : lines[i].marker \in {"success", "error"}}

LinesOf(t) == {i \in ResultLines : lines[i].id = t}

StillRunning == {"Pending", "InProgress", "Delayed"}

\* C18: the dispatcher has returned only when every watcher has finished;
\* the WaitGroup counter equals the number of watchers still polling.
C18_DispatcherWaitsForAll ==
    /\ wg = Cardinality({t \in Targets : wstate[t] = "polling"})
    /\ dpc = "returned" =>
          /\ spawned = Len(inputs)
          /\ \A t \in Targets : wstate[t] \in Finished

\* Three targets, one of each ending, and the dispatcher has returned.
C18_Witness ==
    /\ dpc = "returned"
    /\ Len(inputs) = 3
    /\ \E t \in Targets : wstate[t] = "succeeded"
    /\ \E t \in Targets : wstate[t] = "failed"
    /\ \E t \in Targets : wstate[t] = "errored"

\* C19: no target ever has two result lines; once every target has ended
\* with a status there are exactly as many result lines as targets, one
\* for each; a target that ended with Success has a success line showing
\* its standard output, any other an error line showing its standard error.
C19_OneResultLinePerTarget ==
    /\ \A t \in Targets : Cardinality(LinesOf(t)) <= 1
    /\ \A i \in ResultLines : lines[i].id \in Targets
    /\ (\A t \in Targets : wstate[t] \in {"succeeded", "failed"}) =>
          /\ Cardinality(ResultLines) = Len(inputs)
          /\ \A t \in Targets : Cardinality(LinesOf(t)) = 1
    /\ \A i \in ResultLines :
          IF lastStatus[lines[i].id] = "Success"
             THEN /\ lines[i].marker = "success"
                  /\ lines[i].text = <<"stdout", lines[i].id>>
             ELSE /\ lines[i].marker = "error"
                  /\ lines[i].text = <<"stderr", lines[i].id>>

\* Three targets, two successes and a failure, printed out of order, and
\* the dispatcher has returned.
C19_Witness ==
    /\ dpc = "returned"
    /\ Len(inputs) = 3
    /\ Cardinality({t \in Targets : wstate[t] = "succeeded"}) = 2
    /\ Cardinality({t \in Targets : wstate[t] = "failed"}) = 1
    /\ Len(lines) = 3
    /\ lines[1].id = 3
    /\ lines[1].marker = "error"

\* C20: a watcher whose latest poll returned a status is polling, with
\* nothing printed, exactly when that status is Pending, InProgress or
\* Delayed; it has ended as succeeded exactly when the status is Success
\* (whatever the letter case against "success"), and as failed for every
\* other status.
C20_PollingExactlyWhileRunning ==
    \A t \in Targets :
        (lastStatus[t] # "none" /\ wstate[t] # "errored") =>
            /\ wstate[t] = "polling" <=> lastStatus[t] \in StillRunning
            /\ wstate[t] = "succeeded" <=> lastStatus[t] = "Success"
            /\ wstate[t] = "failed" <=> lastStatus[t] \notin (StillRunning \cup {"Success"})
            /\ wstate[t] = "polling" => LinesOf(t) = {}

\* One watcher still polling on Delayed, one ended on Success, one ended as
\* failed on Cancelling.
C20_Witness ==
    /\ Len(inputs) = 3
    /\ \E t \in Targets : wstate[t] = "polling" /\ lastStatus[t] = "Delayed"
    /\ \E t \in Targets : wstate[t] = "succeeded" /\ lastStatus[t] = "Success"
    /\ \E t \in Targets : wstate[t] = "failed" /\ lastStatus[t] = "Cancelling"

\* C21: a watcher whose status call failed has stopped and has printed a
\* failure line that names its own target.
C21_FailedPollNamesTarget ==
    \A t \in Targets :
        wstate[t] = "errored" =>
            \E i \in 1..Len(lines) :
                lines[i].marker = "failed to get" /\ lines[i].id = t

\* C22: once the watchers' context is cancelled no watcher prints a line of
\* any kind any more.
C22_NoLineAfterCancel ==
    [][ctxDone => lines' = lines]_vars

SendCalls == {i \in 1..Len(slog) : slog[i].ev = "send_command"}

\* C24: a dispatch makes at most one send-command call and that call carries
\* the id of every target found; nothing of the dispatcher runs, no watcher
\* exists and no status has been polled unless that call has succeeded;
\* after it, there is one watcher per target, watcher t polling the id of
\* target t and printing lines for that id only.
C24_OneSendThenOneWatcherPerTarget ==
    /\ Cardinality(SendCalls) <= 1
    /\ \A i \in SendCalls :
          /\ Len(slog[i].arg) = Len(cmdTargets)
          /\ \A k \in 1..Len(cmdTargets) : slog[i].arg[k] = cmdTargets[k].Name
    /\ ~SHas("sent") => (dpc = "idle" /\ wstate = <<>> /\ lines = <<>>)
    /\ dpc # "idle" =>
          /\ Len(wstate) = Len(cmdTargets)
          /\ \A t \in Targets :
                /\ inputs[t] = cmdTargets[t].Name
                /\ lastStatus[t] # "none" => wstate[t] # "unstarted"
          /\ \A i \in ResultLines : lines[i].id \in {inputs[t] : t \in Targets}
    /\ dpc \in {"wait", "returned"} =>
          \A t \in Targets : wstate[t] # "unstarted"

\* The command was sent to several targets and every watcher has finished.
C24_Witness ==
    /\ SHas("sent")
    /\ Len(cmdTargets) >= 2
    /\ dpc = "returned"
    /\ \A t \in Targets : wstate[t] \in Finished

\* C25: when the send-command call has succeeded the cmd command ends only
\* after the dispatcher has returned, with every watcher finished, and its
\* exit status is 0 whatever the targets' results are.
C25_ExitZeroWhateverTheResults ==
    (spc = "exited" /\ SHas("sent")) =>
        /\ exitCode = 0
        /\ dpc = "returned"
        /\ \A t \in Targets : wstate[t] \in Finished

\* The command has ended after one target failed and the poll of another
\* one failed.
C25_Witness ==
    /\ spc = "exited" /\ SHas("sent")
    /\ \E t \in Targets : wstate[t] = "failed"
    /\ \E t \in Targets : wstate[t] = "errored"

\* The scanner's state and effects as one value.
ScanState(lwn, ts, written, esc) ==
    [lastWasNewline |-> lwn, tildeSeen |-> ts, out |-> written, escaped |-> esc]

\* The scanner run again over the bytes s from the reset state
\* (lastWasNewline = TRUE, tildeSeen = FALSE, nothing written): each byte
\* goes through the loop body, and nothing is scanned after an escape.
RECURSIVE Rerun(_)
Rerun(s) ==
    IF s = <<>>
    THEN ScanState(TRUE, FALSE, <<>>, FALSE)
    ELSE LET before == Rerun(SubSeq(s, 1, Len(s) - 1))
             r == ScanByte(before.lastWasNewline, before.tildeSeen, s[Len(s)])
         IN IF before.escaped
            THEN before
            ELSE ScanState(r.lastWasNewline, r.tildeSeen,
                           before.out \o r.write, r.escape)

RefStep(atLineStart, tildeArmed, b) ==
    CASE ~tildeArmed /\ atLineStart /\ b = Tilde ->
            [action |-> "arm", forward |-> <<>>,
             atLineStart |-> FALSE, tildeArmed |-> TRUE]
      [] tildeArmed /\ b = Dot ->
            [action |-> "escape", forward |-> <<>>,
             atLineStart |-> atLineStart, tildeArmed |-> tildeArmed]
      [] tildeArmed /\ b # Dot ->
            [action |-> "forward", forward |-> <<Tilde, b>>,
             atLineStart |-> (b = CR \/ b = LF), tildeArmed |-> FALSE]
      [] OTHER ->
            [action |-> "forward", forward |-> <<b>>,
             atLineStart |-> (b = CR \/ b = LF), tildeArmed |-> FALSE]

\* C28: every byte the scanner reads is handled as the reference algorithm
\* handles it in the scanner's state: the same bytes are forwarded, escape
\* is triggered exactly when the reference triggers it, and otherwise the
\* next state is the reference's next state.
C28_FollowsReference ==
    [][consumed' # consumed =>
          LET ref == RefStep(lastWasNewline, tildeSeen, consumed'[Len(consumed')])
          IN /\ out' = out \o ref.forward
             /\ escaped' = (ref.action = "escape")
             /\ ref.action # "escape" =>
                   /\ lastWasNewline' = ref.atLineStart
                   /\ tildeSeen' = ref.tildeArmed]_vars

\* A run through each rule of the reference: arm, forward the held `~` with
\* a newline, arm again, escape.
C28_Witness ==
    /\ consumed = <<Tilde, LF, Tilde, Dot>>
    /\ out = <<Tilde, LF>>
    /\ escaped

\* C27: when start is invoked with a target flag naming a known instance,
\* the session is created for that instance and the instance prompt has not
\* been shown.
C27_StartUsesTargetFlag ==
    (scmd = "start" /\ TrimSpace(invocation.flag) \in Instances /\ SHas("created")) =>
        /\ SArg("target").name = TrimSpace(invocation.flag)
        /\ ~SHas("prompt")

\* C29: once the scanner has recognised the escape sequence and the child is
\* still running, the event the proxy acts on is never the forwarding
\* loop's completion.
C29_EscapeBeatsLoopCompletion ==
    (escaped /\ child = "running") => selected # "stdinErr"

\* C30: when local input has ended cleanly, with no escape and no signal,
\* and the child has ended with a non-zero status, the call returns the
\* child's exit error.
C30_EofIsNotAnOutcome ==
    (/\ pc = "returned"
     /\ stdinIsTerminal
     /\ srcEnd = "eof" /\ input = <<>>
     /\ ~escaped /\ sigCount = 0
     /\ selected # "none"
     /\ childStatus = "exit status 7")
    => ret = ExitErrorOf(childStatus)

\* C31: once the forwarding loop has ended, whichever way (read EOF, escape,
\* read error, cancellation), the write end of the child's input is closed.
C31_LoopEndClosesChildInput ==
    fpc = "done" => pipeClosed

\* The loop ended on observing the cancellation that followed the child's
\* exit, after it had forwarded a byte.
C31_Witness ==
    /\ fpc = "done"
    /\ selected = "processDone"
    /\ ~escaped /\ srcEnd = "block" /\ fret = Nil
    /\ consumed # <<>>
    /\ pipeClosed

\* C32: when the loop reads a byte that it has to write while the child's
\* input can no longer be written (the child is gone or the pipe is
\* closed), the write fails and the loop ends in that step with an error.
C32_WriteErrorEndsLoop ==
    [][(/\ fpc = "read" /\ consumed' # consumed
        /\ (child # "running" \/ pipeClosed)
        /\ ScanByte(lastWasNewline, tildeSeen, Head(input)).write # <<>>)
       => (fpc' = "ret" /\ fret' \notin {Nil, Unset})]_vars

\* What was consumed without the `~` that is being held.
Forwardable == IF tildeSeen THEN SubSeq(consumed, 1, Len(consumed) - 1) ELSE consumed

\* C33 as written: the bytes written are the bytes consumed, less a trailing
\* `~` exactly when the scanner is armed.
C33_Original ==
    /\ out = Forwardable
    /\ tildeSeen => (consumed # <<>> /\ consumed[Len(consumed)] = Tilde)

\* C33: until the escape sequence is recognised the bytes written to the
\* child are the bytes consumed, in order, less a trailing `~` exactly when
\* the scanner is armed; once it is recognised they are the bytes consumed
\* less the final `~.`, neither byte of which is written.
C33_ForwardedIsConsumedLessHeld ==
    IF escaped
    THEN /\ Len(consumed) >= 2
         /\ consumed[Len(consumed) - 1] = Tilde /\ consumed[Len(consumed)] = Dot
         /\ out = SubSeq(consumed, 1, Len(consumed) - 2)
    ELSE /\ out = Forwardable
         /\ tildeSeen => (consumed # <<>> /\ consumed[Len(consumed)] = Tilde)

\* A `~` in mid-line was forwarded, and the escape sequence that followed
\* the newline was recognised and withheld.
C33_Witness ==
    /\ consumed = <<Tilde, Tilde, LF, Tilde, Dot>> \/ consumed = <<Slash, LF, Tilde, Dot>>
    /\ escaped
    /\ out = SubSeq(consumed, 1, Len(consumed) - 2)

\* C34: when the loop has ended on a clean end of input without an escape,
\* every byte consumed, a final `~` at a line start included, has been
\* written to the child.
C34_AllForwardedAtEof ==
    (fpc \in {"ret", "done"} /\ srcEnd = "eof" /\ input = <<>> /\ ~escaped /\ fret = Nil)
        => out = consumed

\* C38: the scanner is never armed and at a line start at once; the step
\* that arms clears at-line-start, and while armed at-line-start becomes
\* true only in a step that disarms.
C38_ArmedExcludesLineStart ==
    /\ [](~(tildeSeen /\ lastWasNewline))
    /\ [][/\ (~tildeSeen /\ tildeSeen') => ~lastWasNewline'
          /\ (tildeSeen /\ lastWasNewline') => ~tildeSeen']_vars

\* The scanner armed, disarmed on a newline (back at a line start) and armed
\* again.
C38_Witness ==
    /\ consumed = <<Tilde, LF, Tilde>>
    /\ tildeSeen /\ ~lastWasNewline
    /\ out = <<Tilde, LF>>

\* C35: on the signal path exactly one signal, the first one received, is
\* passed to the child, however many arrive afterwards; no grace timer is
\* started and no force-kill is sent; while the proxy waits the terminal
\* stays raw, and the proxy gets past the wait only when the child has ended.
C35_SignalPathWaitsForChild ==
    selected = "signal" =>
        /\ Count("signal") + Count("signal_failed") = 1
        /\ \A s \in delivered : Has("signal", s) /\ trace[1].arg = s
        /\ \A i \in 1..Len(trace) : ~KillAt(i)
        /\ timer = "off" /\ twpc = "idle"
        /\ pc = "sig_wait" => (termRaw /\ restoreCount = 0)
        /\ (pc = "sig_wait" /\ child = "running") => ~ENABLED SigWait
        /\ pc \in {"deferred", "returned"} => child = "exited"

\* The child has not reacted to the signal passed on; two further signals
\* have arrived, one of them waiting unread in sigs, and the proxy waits.
C35_Witness ==
    /\ pc = "sig_wait"
    /\ child = "running"
    /\ sigCount = MaxSigs + 2
    /\ Len(sigs) = 1
    /\ termRaw

\* C37: each of the three result channels holds at most one value, and each
\* is written only by its one sender in that sender's last step: nothing is
\* in stdinErr before the forwarding goroutine is done, in processDone
\* before the wait goroutine is done, in escapeDetected before the escape.
C37_OneSendPerResultChannel ==
    /\ Len(stdinErr) <= 1 /\ Len(escapeDetected) <= 1 /\ Len(processDone) <= 1
    /\ fpc # "done" => stdinErr = <<>>
    /\ wpc # "done" => processDone = <<>>
    /\ ~escaped => escapeDetected = <<>>

\* The proxy returned on the child's exit; the escape notification and the
\* forwarding loop's result were sent all the same and stay in their
\* channels.
C37_Witness ==
    /\ pc = "returned"
    /\ selected = "processDone"
    /\ Len(escapeDetected) = 1
    /\ Len(stdinErr) = 1
    /\ fpc = "done"

AllWatchersEnded == \A t \in Targets : wstate[t] \in Finished

\* C36: under fair scheduling, once every watcher has ended (its target
\* reported a status that is not Pending, InProgress or Delayed, or a status
\* call failed) the dispatcher eventually returns, and a watcher that has
\* ended stays ended, so a dispatch all of whose watchers eventually end
\* eventually returns; the dispatcher never returns while a watcher has not
\* ended, and a watcher ends only in a step in which a status call fails or
\* reports such a status: no number of polls and no lapse of time ends it.
C36_ReturnsWhenEveryWatcherEnds ==
    /\ AllWatchersEnded ~> (dpc = "returned")
    /\ [][\A t \in Targets : wstate[t] \in Finished => wstate'[t] = wstate[t]]_vars
    /\ [](dpc = "returned" => AllWatchersEnded)
    /\ [][\A t \in Targets :
             (wstate[t] = "polling" /\ wstate'[t] # "polling") =>
                 \/ wstate'[t] = "errored"
                 \/ lastStatus'[t] \notin StillRunning]_vars

\* The dispatcher has returned after a watcher that had seen its command
\* succeed and one whose status call failed.
C36_Witness ==
    /\ dpc = "returned"
    /\ Len(inputs) = 2
    /\ wstate[1] = "errored"
    /\ wstate[2] = "succeeded"
    /\ lastStatus[2] = "Success"

====
